---- MODULE Spec2Model ----
(***************************************************************************)
(* A model of pathutil: the PathExt extension trait over std::path::Path   *)
(* (src/src/pathext.rs), the path-carrying handles PathReadDir,            *)
(* PathDirEntry and PathMetadata, and the error-annotation convention      *)
(* every fallible operation follows.                                       *)
(*                                                                         *)
(* A path is the sequence of its bytes over a small alphabet: the          *)
(* separator "/", the dot ".", an ordinary letter "a", and "xFF", a byte   *)
(* that is not valid UTF-8.  An error text is the sequence of the pieces   *)
(* the formatting writes, in order; "\n" is the line break.                *)
(***************************************************************************)
EXTENDS Integers, Sequences, FiniteSets, TLC

VARIABLES path, arg, op, res, nat, md, rd, entries, attached

vars == <<path, arg, op, res, nat, md, rd, entries, attached>>

(***************************************************************************)
(* Bounds                                                                  *)
(***************************************************************************)
MaxLen == 4        \* longest receiver path of the accessor specification
MaxArgLen == 2     \* longest second path (prefix, destination, link)
MaxFsLen == 1      \* longest receiver path of the filesystem specification
MaxEntries == 2    \* most items a native directory listing yields
MaxAnnotations == 3 \* most annotations attached to one error

Alphabet == {"/", ".", "a", "xFF"}

SeqsUpTo(n) == UNION {[1..k -> Alphabet] : k \in 0..n}

Paths == SeqsUpTo(MaxLen)
ArgPaths == SeqsUpTo(MaxArgLen)
FsPaths == SeqsUpTo(MaxFsLen)

(***************************************************************************)
(* Option and Result values                                                *)
(***************************************************************************)
None == [some |-> FALSE]
Some(v) == [some |-> TRUE, val |-> v]

Ok(v) == [kind |-> "Ok", val |-> v]
Err(e) == [kind |-> "Err", err |-> e]
Panic(m) == [kind |-> "Panic", msg |-> m]
NoResult == [kind |-> "None"]

IsOk(r) == r.kind = "Ok"
IsErr(r) == r.kind = "Err"

(***************************************************************************)
(* std::io::Error: an error kind and the message its Display writes.       *)
(***************************************************************************)
IoError(k, m) == [ekind |-> k, msg |-> m]

\* other_error(msg): an io::Error of kind Other whose message is msg.
other_error(msg) == IoError("Other", <<msg>>)

\* other_error_fmt!(...): other_error of the formatted pieces.
other_error_fmt(pieces) == IoError("Other", pieces)

(***************************************************************************)
(* std::path::Path on a Unix target                                        *)
(***************************************************************************)
\* Path::display: lossy conversion, every invalid byte becomes U+FFFD.
display(p) == [i \in 1..Len(p) |-> IF p[i] = "xFF" THEN "U+FFFD" ELSE p[i]]

\* OsStr::to_str / Path::to_str: the text if every byte is valid UTF-8.
to_str(p) == IF \E i \in 1..Len(p) : p[i] = "xFF" THEN None ELSE Some(p)

has_root(p) == Len(p) > 0 /\ p[1] = "/"

\* the last index of the separator-free run that starts at i
SegEnd(p, i) ==
    CHOOSE j \in i..Len(p) :
        /\ \A k \in i..j : p[k] # "/"
        /\ (j = Len(p) \/ p[j + 1] = "/")

Comp(k, p, i, j) == [ckind |-> k, name |-> SubSeq(p, i, j), from |-> i, to |-> j]

RECURSIVE BodyFrom(_, _)
BodyFrom(p, i) ==
    IF i > Len(p) THEN <<>>
    ELSE IF p[i] = "/" THEN BodyFrom(p, i + 1)
    ELSE LET j == SegEnd(p, i)
             seg == SubSeq(p, i, j)
             here == IF seg = <<".">>
                       THEN (IF i = 1 THEN <<Comp("CurDir", p, i, j)>> ELSE <<>>)
                     ELSE IF seg = <<".", ".">>
                       THEN <<Comp("ParentDir", p, i, j)>>
                     ELSE <<Comp("Normal", p, i, j)>>
         IN here \o BodyFrom(p, j + 1)

\* Path::components: the root, a leading ".", then the body; empty
\* segments and "." segments inside the body are skipped.
components(p) ==
    (IF has_root(p) THEN <<Comp("RootDir", p, 1, 1)>> ELSE <<>>) \o BodyFrom(p, 1)

\* Components::as_path of a run of components of p: the bytes of p from the
\* first to the last of them (separators around the run are trimmed).
as_path(p, cs) ==
    IF Len(cs) = 0 THEN <<>> ELSE SubSeq(p, cs[1].from, cs[Len(cs)].to)

SameComp(x, y) == x.ckind = y.ckind /\ x.name = y.name

\* Path::file_name: the last component if it is a normal one.
file_name(p) ==
    LET cs == components(p) IN
    IF Len(cs) > 0 /\ cs[Len(cs)].ckind = "Normal"
      THEN Some(cs[Len(cs)].name) ELSE None

\* Path::parent: the path without its last component; none for a root or
\* an empty path.
parent(p) ==
    LET cs == components(p) IN
    IF Len(cs) > 0 /\ cs[Len(cs)].ckind \in {"Normal", "CurDir", "ParentDir"}
      THEN Some(as_path(p, SubSeq(cs, 1, Len(cs) - 1))) ELSE None

HasDot(f) == \E i \in 1..Len(f) : f[i] = "."
LastDot(f) == CHOOSE i \in 1..Len(f) : f[i] = "." /\ \A k \in (i + 1)..Len(f) : f[k] # "."

\* rsplit_file_at_dot: (before, after) the last dot of a file name.
rsplit_file_at_dot(f) ==
    IF f = <<".", ".">> THEN <<Some(f), None>>
    ELSE IF ~HasDot(f) THEN <<None, Some(f)>>
    ELSE LET d == LastDot(f) IN
         IF d = 1 THEN <<Some(f), None>>
         ELSE <<Some(SubSeq(f, 1, d - 1)), Some(SubSeq(f, d + 1, Len(f)))>>

\* Path::file_stem: before.or(after)
file_stem(p) ==
    LET fnm == file_name(p) IN
    IF ~fnm.some THEN None
    ELSE LET ba == rsplit_file_at_dot(fnm.val) IN
         IF ba[1].some THEN ba[1] ELSE ba[2]

\* Path::extension: before.and(after)
extension(p) ==
    LET fnm == file_name(p) IN
    IF ~fnm.some THEN None
    ELSE LET ba == rsplit_file_at_dot(fnm.val) IN
         IF ba[1].some THEN ba[2] ELSE None

\* Path::starts_with: the components of base are a prefix of those of p.
starts_with(p, base) ==
    LET cs == components(p)
        bs == components(base)
    IN /\ Len(bs) <= Len(cs)
       /\ \A i \in 1..Len(bs) : SameComp(cs[i], bs[i])

\* Path::strip_prefix: the rest of p after the components of base.
strip_prefix(p, base) ==
    LET cs == components(p)
        bs == components(base)
    IN IF starts_with(p, base)
         THEN Ok(as_path(p, SubSeq(cs, Len(bs) + 1, Len(cs))))
         ELSE Err("StripPrefixError")

(***************************************************************************)
(* error_annotation, as the crate is used here                             *)
(***************************************************************************)
\* Display of ErrorAnnotation: "{source}\n-with {label}: {info}"
AnnotationLine(label, info) == <<"\n", "-with ", label, ": ">> \o info

\* merge_annotation that writes the newest annotation right after the
\* description, before the older ones
merge_annotation_NewestFirst(e, label, info) ==
    IoError(e.ekind, <<e.msg[1]>> \o AnnotationLine(label, info) \o Tail(e.msg))

\* Annotatable::merge_annotation for io::Error: the same kind, and the
\* rendered annotation as the new message.
merge_annotation(e, label, info) ==
    IoError(e.ekind, e.msg \o AnnotationLine(label, info))

\* AnnotateResult::annotate_err_into: Ok is passed through, an error is
\* merged with the annotation.
annotate_err_into(r, label, info) ==
    IF IsErr(r) THEN Err(merge_annotation(r.err, label, info)) ELSE r

\* Result::map_err
map_err(r, e) == IF IsErr(r) THEN Err(e) ELSE r

\* Option::ok_or_else
ok_or_else(opt, e) == IF opt.some THEN Ok(opt.val) ELSE Err(e)

(***************************************************************************)
(* PathExt (src/src/pathext.rs)                                            *)
(***************************************************************************)
\* o2r without the annotation step
o2r_NoAnnotation(p, opt, errordesc) ==
    ok_or_else(opt, other_error(errordesc))

o2r(p, opt, errordesc) ==
    annotate_err_into(ok_or_else(opt, other_error(errordesc)), "path", display(p))

pe_to_str(p) == o2r(p, to_str(p), "invalid utf8")

pe_parent(p) == o2r(p, parent(p), "no parent path")

pe_file_name(p) == o2r(p, file_name(p), "no file name")

\* pe_file_name_str with the encoding check on the whole path first
pe_file_name_str_EagerUtf8(p) ==
    LET s == pe_to_str(p) IN
    IF IsErr(s) THEN s
    ELSE LET os == pe_file_name(p) IN
         IF IsErr(os) THEN os ELSE o2r(p, to_str(os.val), "invalid utf8")

pe_file_name_str(p) ==
    LET os == pe_file_name(p) IN
    IF IsErr(os) THEN os ELSE o2r(p, to_str(os.val), "invalid utf8")

\* pe_strip_prefix with its two annotations attached in the other order
pe_strip_prefix_PathFirst(p, base) ==
    annotate_err_into(
        annotate_err_into(
            map_err(strip_prefix(p, base), other_error_fmt(<<"prefix mismatch">>)),
            "path", display(p)),
        "prefix", display(base))

pe_strip_prefix(p, base) ==
    annotate_err_into(
        annotate_err_into(
            map_err(strip_prefix(p, base), other_error_fmt(<<"prefix mismatch">>)),
            "prefix", display(base)),
        "path", display(p))

\* pe_file_stem with a description of its own
pe_file_stem_OwnDesc(p) == o2r(p, file_stem(p), "no file stem")

pe_file_stem(p) == o2r(p, file_stem(p), "no file name")

pe_file_stem_str(p) ==
    LET os == pe_file_stem(p) IN
    IF IsErr(os) THEN os ELSE o2r(p, to_str(os.val), "invalid utf8")

\* pe_extension that asks the native file_stem
pe_extension_AsStem(p) == o2r(p, file_stem(p), "no file name or no extension")

pe_extension(p) == o2r(p, extension(p), "no file name or no extension")

pe_extension_str(p) ==
    LET os == pe_extension(p) IN
    IF IsErr(os) THEN os ELSE o2r(p, to_str(os.val), "invalid utf8")

\* Path::join (PathBuf::push) of a directory and a relative name
join(dir, name) ==
    IF has_root(name) THEN name
    ELSE IF Len(dir) > 0 /\ dir[Len(dir)] # "/" THEN dir \o <<"/">> \o name
    ELSE dir \o name

(***************************************************************************)
(* FileTypeEnum (src/src/filetype.rs)                                      *)
(***************************************************************************)
\* std::fs::FileType: exactly one of a directory, a regular file, a symlink
\* or something else (a device, a FIFO, a socket).
FileTypes == {"Dir", "File", "Symlink", "Other"}

is_dir(ftype) == ftype = "Dir"
is_file(ftype) == ftype = "File"
is_symlink(ftype) == ftype = "Symlink"

\* From<FileType> for FileTypeEnum; the last branch is unreachable!()
FileTypeEnum_from(ftype) ==
    IF is_dir(ftype) THEN Ok("Dir")
    ELSE IF is_file(ftype) THEN Ok("File")
    ELSE IF is_symlink(ftype) THEN Ok("Symlink")
    ELSE Panic(<<"Incoherent ", ftype>>)

(***************************************************************************)
(* PathMetadata (src/src/metadata.rs)                                      *)
(***************************************************************************)
PathMetadata_new(p, m) == [present |-> TRUE, path |-> p, md |-> m]

PathMetadata_file_type(pm) == pm.md.ftype

\* n is what Metadata::modified returns
PathMetadata_modified(pm, n) == annotate_err_into(n, "path", display(pm.path))

\* n is what Metadata::accessed returns
PathMetadata_accessed(pm, n) == annotate_err_into(n, "path", display(pm.path))

\* n is what Metadata::created returns
PathMetadata_created(pm, n) == annotate_err_into(n, "path", display(pm.path))

\* expected is a FileTypeEnum (From is the identity) or a FileType
ExpectedInto(expected) ==
    IF expected.is = "FileTypeEnum" THEN Ok(expected.v) ELSE FileTypeEnum_from(expected.v)

\* require_file_type that names the two discriminants the other way round
PathMetadata_require_file_type_Swapped(pm, expected) ==
    LET expfte == ExpectedInto(expected)
        found == FileTypeEnum_from(PathMetadata_file_type(pm))
    IN IF ~IsOk(expfte) THEN expfte
       ELSE IF ~IsOk(found) THEN found
       ELSE IF found.val = expfte.val THEN Ok("unit")
       ELSE Err(other_error_fmt(<<"found ", expfte.val, ", expected ", found.val>>))

PathMetadata_require_file_type(pm, expected) ==
    LET expfte == ExpectedInto(expected)
        found == FileTypeEnum_from(PathMetadata_file_type(pm))
    IN IF ~IsOk(expfte) THEN expfte
       ELSE IF ~IsOk(found) THEN found
       ELSE IF found.val = expfte.val THEN Ok("unit")
       ELSE Err(other_error_fmt(<<"found ", found.val, ", expected ", expfte.val>>))

(***************************************************************************)
(* PathDirEntry (src/src/direntry.rs)                                      *)
(***************************************************************************)
PathDirEntry_new(dirpath, de) == [dirpath |-> dirpath, de |-> de]

PathDirEntry_dir_path(e) == e.dirpath

\* DirEntry::path: the listed directory joined with the entry's name
PathDirEntry_path(e) == join(e.dirpath, e.de.name)

\* metadata that annotates with the entry's own path, as file_type does
PathDirEntry_metadata_EntryPath(e, n) ==
    LET metadata == annotate_err_into(n, "path", display(PathDirEntry_path(e))) IN
    IF IsErr(metadata) THEN metadata
    ELSE Ok(PathMetadata_new(PathDirEntry_path(e), metadata.val))

\* n is what DirEntry::metadata returns
PathDirEntry_metadata(e, n) ==
    LET metadata == annotate_err_into(n, "parent-dir", display(e.dirpath)) IN
    IF IsErr(metadata) THEN metadata
    ELSE Ok(PathMetadata_new(PathDirEntry_path(e), metadata.val))

\* n is what DirEntry::file_type returns
PathDirEntry_file_type(e, n) ==
    annotate_err_into(n, "path", display(PathDirEntry_path(e)))

(***************************************************************************)
(* PathReadDir (src/src/readdir.rs): the native ReadDir is the sequence    *)
(* of the items it yields and the number of them already taken.            *)
(***************************************************************************)
PathReadDir_new(p, items) == [open |-> TRUE, path |-> p, items |-> items, pos |-> 0]

End == [kind |-> "End"]

\* next that passes over the items that failed
PathReadDir_next_SkipErrors(h) ==
    LET rest == {i \in (h.pos + 1)..Len(h.items) : IsOk(h.items[i])} IN
    IF rest = {} THEN [item |-> End, handle |-> [h EXCEPT !.pos = Len(h.items)]]
    ELSE LET i == CHOOSE k \in rest : \A m \in rest : k <= m IN
         [item |-> Ok(PathDirEntry_new(h.path, h.items[i].val)),
          handle |-> [h EXCEPT !.pos = i]]

\* Iterator::next: the item (End when the native listing has ended) and the
\* handle afterwards.
PathReadDir_next(h) ==
    IF h.pos >= Len(h.items) THEN [item |-> End, handle |-> h]
    ELSE LET de == annotate_err_into(h.items[h.pos + 1], "path", display(h.path)) IN
         [item |-> IF IsOk(de) THEN Ok(PathDirEntry_new(h.path, de.val)) ELSE de,
          handle |-> [h EXCEPT !.pos = @ + 1]]

\* Iterator::collect into io::Result<Vec<_>>: takes items until the listing
\* ends or an item fails; acc is the vector so far.
RECURSIVE collect(_, _)
collect(h, acc) ==
    LET n == PathReadDir_next(h) IN
    IF n.item = End THEN [result |-> Ok(acc), handle |-> n.handle]
    ELSE IF IsErr(n.item) THEN [result |-> n.item, handle |-> n.handle]
    ELSE collect(n.handle, Append(acc, n.item.val))

(***************************************************************************)
(* PathExt, the filesystem operations: n is what the native primitive      *)
(* returns.                                                                *)
(***************************************************************************)
pe_metadata(p, n) ==
    LET r == annotate_err_into(n, "path", display(p)) IN
    IF IsOk(r) THEN Ok(PathMetadata_new(p, r.val)) ELSE r

pe_symlink_metadata(p, n) ==
    LET r == annotate_err_into(n, "path", display(p)) IN
    IF IsOk(r) THEN Ok(PathMetadata_new(p, r.val)) ELSE r

pe_canonicalize(p, n) == annotate_err_into(n, "path", display(p))

pe_read_link(p, n) == annotate_err_into(n, "path", display(p))

pe_read_dir(p, n) ==
    annotate_err_into(IF IsOk(n) THEN Ok(PathReadDir_new(p, n.val)) ELSE n,
                      "path", display(p))

\* the result, and the listing handle as the call leaves it
pe_read_dir_entries(p, n) ==
    LET r == pe_read_dir(p, n) IN
    IF IsErr(r) THEN [result |-> r, handle |-> [open |-> FALSE]]
    ELSE LET c == collect(r.val, <<>>) IN
         [result |-> c.result, handle |-> [c.handle EXCEPT !.open = FALSE]]

pe_copy(p, to, n) ==
    annotate_err_into(annotate_err_into(n, "from", display(p)), "to", display(to))

pe_create_dir(p, n) == annotate_err_into(n, "path", display(p))

pe_create_dir_all(p, n) == annotate_err_into(n, "path", display(p))

\* pe_hard_link with the labels of pe_copy and pe_rename
pe_hard_link_FromTo(p, link, n) ==
    annotate_err_into(annotate_err_into(n, "from", display(p)), "to", display(link))

pe_hard_link(p, link, n) ==
    annotate_err_into(annotate_err_into(n, "original", display(p)), "link", display(link))

pe_read(p, n) == annotate_err_into(n, "path", display(p))

pe_read_to_string(p, n) == annotate_err_into(n, "path", display(p))

pe_remove_dir(p, n) == annotate_err_into(n, "path", display(p))

pe_remove_dir_all(p, n) == annotate_err_into(n, "path", display(p))

pe_remove_file(p, n) == annotate_err_into(n, "path", display(p))

pe_rename(p, to, n) ==
    annotate_err_into(annotate_err_into(n, "from", display(p)), "to", display(to))

\* format!("{:?}", &perms)
PermDebug(perms) == <<"Permissions(FilePermissions { mode: ", perms, " })">>

pe_set_permissions(p, perms, n) ==
    LET permdesc == PermDebug(perms) IN
    annotate_err_into(annotate_err_into(n, "path", display(p)), "permissions", permdesc)

pe_write(p, contents, n) == annotate_err_into(n, "path", display(p))

(***************************************************************************)
(* The accessor specification: a caller holds a path, calls one component  *)
(* accessor on it, looks at the result and lets it go before the next      *)
(* call.  The library keeps no state of its own: path is never written.    *)
(***************************************************************************)
NoMd == [present |-> FALSE]
NoRd == [open |-> FALSE]

Idle ==
    /\ arg = <<>>
    /\ op = "none"
    /\ res = NoResult
    /\ nat = NoResult
    /\ md = NoMd
    /\ rd = NoRd
    /\ entries = <<>>
    /\ attached = <<>>

Init ==
    /\ path \in Paths
    /\ Idle

Returns(name, a, r) ==
    /\ op = "none"
    /\ op' = name
    /\ arg' = a
    /\ res' = r
    /\ UNCHANGED <<path, nat, md, rd, entries, attached>>

PeToStr == Returns("pe_to_str", <<>>, pe_to_str(path))
PeParent == Returns("pe_parent", <<>>, pe_parent(path))
PeFileName == Returns("pe_file_name", <<>>, pe_file_name(path))
PeFileNameStr == Returns("pe_file_name_str", <<>>, pe_file_name_str(path))
PeFileStem == Returns("pe_file_stem", <<>>, pe_file_stem(path))
PeFileStemStr == Returns("pe_file_stem_str", <<>>, pe_file_stem_str(path))
PeExtension == Returns("pe_extension", <<>>, pe_extension(path))
PeExtensionStr == Returns("pe_extension_str", <<>>, pe_extension_str(path))
PeStripPrefix ==
    \E base \in ArgPaths :
        Returns("pe_strip_prefix", base, pe_strip_prefix(path, base))

\* the caller drops the result (and every handle it holds); a panic ends
\* the run
Discard ==
    /\ op # "none"
    /\ res.kind # "Panic"
    /\ arg' = <<>>
    /\ op' = "none"
    /\ res' = NoResult
    /\ nat' = NoResult
    /\ md' = NoMd
    /\ rd' = NoRd
    /\ entries' = <<>>
    /\ attached' = <<>>
    /\ UNCHANGED path

Next ==
    \/ PeToStr
    \/ PeParent
    \/ PeFileName
    \/ PeFileNameStr
    \/ PeFileStem
    \/ PeFileStemStr
    \/ PeExtension
    \/ PeExtensionStr
    \/ PeStripPrefix
    \/ Discard

Spec == Init /\ [][Next]_vars

(***************************************************************************)
(* Reading a rendered error text                                           *)
(***************************************************************************)
HasBreak(t) == \E i \in 1..Len(t) : t[i] = "\n"
FirstBreak(t) == CHOOSE i \in 1..Len(t) : t[i] = "\n" /\ \A k \in 1..(i - 1) : t[k] # "\n"

\* the lines of a text
RECURSIVE Lines(_)
Lines(t) ==
    IF ~HasBreak(t) THEN <<t>>
    ELSE LET i == FirstBreak(t) IN
         <<SubSeq(t, 1, i - 1)>> \o Lines(SubSeq(t, i + 1, Len(t)))

\* the line "-with <label>: <value>"
WithLine(label, value) == <<"-with ", label, ": ">> \o value

\* r is the failure that renders as desc followed by exactly these lines
FailsWith(r, desc, withLines) ==
    /\ IsErr(r)
    /\ Lines(r.err.msg) = <<(<<desc>>)>> \o withLines

\* the contract of a component accessor: native is what the native accessor yields
AccessorContract(r, native, desc) ==
    IF native.some
      THEN IsOk(r)
      ELSE FailsWith(r, desc, <<WithLine("path", display(path))>>)

\* C1: each of pe_to_str, pe_parent, pe_file_name, pe_file_stem and
\* pe_extension fails exactly when the native accessor yields no value, and
\* the failure then renders as the accessor's fixed description followed by
\* the one line "-with path: <p>" and nothing else.
C1_AccessorFailure ==
    /\ op = "pe_to_str" => AccessorContract(res, to_str(path), "invalid utf8")
    /\ op = "pe_parent" => AccessorContract(res, parent(path), "no parent path")
    /\ op = "pe_file_name" => AccessorContract(res, file_name(path), "no file name")
    /\ op = "pe_file_stem" => AccessorContract(res, file_stem(path), "no file name")
    /\ op = "pe_extension" =>
           AccessorContract(res, extension(path), "no file name or no extension")

\* pe_parent of the root path has failed
C1_Witness ==
    /\ op = "pe_parent"
    /\ path = <<"/">>
    /\ IsErr(res)
    /\ res.err.msg = <<"no parent path", "\n", "-with ", "path", ": ", "/">>

\* C2: pe_strip_prefix(p, base) fails with "prefix mismatch", the line
\* "-with prefix: <base>" and then the line "-with path: <p>" when p does not
\* start with base, and succeeds with the native remaining suffix when it does.
C2_StripPrefix ==
    op = "pe_strip_prefix" =>
        IF starts_with(path, arg)
          THEN res = Ok(strip_prefix(path, arg).val)
          ELSE FailsWith(res, "prefix mismatch",
                         <<WithLine("prefix", display(arg)),
                           WithLine("path", display(path))>>)

\* a mismatch of two different paths, and a match that leaves a suffix
C2_Witness ==
    /\ op = "pe_strip_prefix"
    /\ \/ path = <<"/", "a">> /\ arg = <<"a">> /\ IsErr(res)
       \/ path = <<"a", "/", "a">> /\ arg = <<"a">> /\ res = Ok(<<"a">>)

\* the bytes of p after its last separator
FinalSegment(p) ==
    IF \E i \in 1..Len(p) : p[i] = "/"
      THEN LET i == CHOOSE k \in 1..Len(p) :
                        p[k] = "/" /\ \A m \in (k + 1)..Len(p) : p[m] # "/"
           IN SubSeq(p, i + 1, Len(p))
      ELSE p

NoFileName(r) == FailsWith(r, "no file name", <<WithLine("path", display(path))>>)

\* C7 as stated: for every path whose final component is ".." or ".", both
\* pe_file_name and pe_file_stem fail with "no file name" and the path line.
C7_Original ==
    (op \in {"pe_file_name", "pe_file_stem"}
        /\ FinalSegment(path) \in {<<".">>, <<".", ".">>})
    => NoFileName(res)

\* C7 (amended): for a final component ".." both accessors fail with
\* "no file name"; a final component "." is skipped, and the outcome is that
\* of the path without it: a failure with "no file name" if that path has no
\* file name, and its file name (stem) otherwise.
C7_FinalDotDot ==
    op \in {"pe_file_name", "pe_file_stem"} =>
        /\ FinalSegment(path) = <<".", ".">> => NoFileName(res)
        /\ FinalSegment(path) = <<".">> =>
              LET q == SubSeq(path, 1, Len(path) - 1)
                  native == IF op = "pe_file_name" THEN file_name(q) ELSE file_stem(q)
              IN IF native.some THEN res = Ok(native.val) ELSE NoFileName(res)

\* pe_file_stem of "a/.." has failed
C7_Witness ==
    /\ op = "pe_file_stem"
    /\ path = <<"a", "/", ".", ".">>
    /\ NoFileName(res)

\* the contract of a UTF-8 variant: native is the native component
StrContract(r, native, absentDesc) ==
    IF ~native.some
      THEN FailsWith(r, absentDesc, <<WithLine("path", display(path))>>)
    ELSE IF ~to_str(native.val).some
      THEN FailsWith(r, "invalid utf8", <<WithLine("path", display(path))>>)
    ELSE r = Ok(native.val)

\* C8: pe_file_name_str, pe_file_stem_str and pe_extension_str check absence
\* before encoding: an absent component fails with the absence description
\* whatever the encoding of the path, a present component that is not valid
\* UTF-8 fails with "invalid utf8", both with the one line "-with path:" of
\* the whole path, and the call succeeds iff the component is present and
\* valid UTF-8.
C8_AbsenceBeforeEncoding ==
    /\ op = "pe_file_name_str" => StrContract(res, file_name(path), "no file name")
    /\ op = "pe_file_stem_str" => StrContract(res, file_stem(path), "no file name")
    /\ op = "pe_extension_str" =>
           StrContract(res, extension(path), "no file name or no extension")

\* a path that is not valid UTF-8 and has no file name: the absence is reported
C8_Witness ==
    /\ op = "pe_file_name_str"
    /\ path = <<"xFF", "/", ".", ".">>
    /\ res.err.msg[1] = "no file name"

ReturnsNative(r, native) == native.some => r = Ok(native.val)

C9_Returned ==
    /\ op = "pe_parent" => ReturnsNative(res, parent(path))
    /\ op = "pe_file_name" => ReturnsNative(res, file_name(path))
    /\ op = "pe_file_stem" => ReturnsNative(res, file_stem(path))
    /\ op = "pe_extension" => ReturnsNative(res, extension(path))

\* C9: for a path that has a parent / file name / file stem / extension the
\* accessor succeeds with exactly the native component, and no call changes
\* the path, so that a later call on it returns an equal value.
C9_RoundTrip == [][C9_Returned' /\ path' = path]_vars

\* pe_extension of "a.a" has returned the extension "a"
C9_Witness ==
    /\ op = "pe_extension"
    /\ path = <<"a", ".", "a">>
    /\ res = Ok(<<"a">>)

(***************************************************************************)
(* The annotation specification: a result of some fallible operation is    *)
(* annotated again and again, as the operations and their callers do;      *)
(* attached records the annotations of an error in the order of attaching. *)
(***************************************************************************)
Labels == {"path", "prefix", "from", "to"}
AnnInfos == {display(<<"/">>), display(<<"a">>), display(<<"xFF">>)}

NativeErrors ==
    { IoError("NotFound", <<"No such file or directory (os error 2)">>),
      IoError("PermissionDenied", <<"Permission denied (os error 13)">>) }

AnnSources ==
    {Err(e) : e \in NativeErrors \cup {other_error("prefix mismatch")}} \cup {Ok("unit")}

InitAnn ==
    /\ path = <<>>
    /\ arg = <<>>
    /\ op = "source"
    /\ nat \in AnnSources
    /\ res = nat
    /\ md = NoMd
    /\ rd = NoRd
    /\ entries = <<>>
    /\ attached = <<>>

AnnotateErrInto ==
    \E label \in Labels, info \in AnnInfos :
        /\ Len(attached) < MaxAnnotations
        /\ op' = "annotate_err_into"
        /\ res' = annotate_err_into(res, label, info)
        /\ attached' = IF IsErr(res) THEN Append(attached, <<label, info>>) ELSE attached
        /\ UNCHANGED <<path, arg, nat, md, rd, entries>>

NextAnn == AnnotateErrInto

SpecAnn == InitAnn /\ [][NextAnn]_vars

AttachedLine(i) == WithLine(attached[i][1], attached[i][2])

\* C3 as stated: the "-with" lines follow the description with the most
\* recently attached annotation first (kn, ..., k1 for steps k1, ..., kn).
C3_Original ==
    IsErr(res) =>
        Lines(res.err.msg) =
            <<nat.err.msg>> \o
            [i \in 1..Len(attached) |-> AttachedLine(Len(attached) + 1 - i)]

\* C3 (amended): the "-with" lines follow the description in the order of
\* attaching, the oldest annotation first and the most recent one last
\* (k1, ..., kn), one line per attached annotation, none lost or replaced.
C3_AttachOrder ==
    IsErr(res) =>
        Lines(res.err.msg) =
            <<nat.err.msg>> \o [i \in 1..Len(attached) |-> AttachedLine(i)]

\* three annotations, prefix, then path, then to, are on one error
C3_Witness ==
    /\ IsErr(res)
    /\ Len(attached) = 3
    /\ attached[1][1] = "prefix"
    /\ attached[2][1] = "path"
    /\ attached[3][1] = "to"
    /\ Len(Lines(res.err.msg)) = 4

(***************************************************************************)
(* The filesystem specification: a caller holds a path and calls one       *)
(* filesystem operation of PathExt on it; the native primitive answers     *)
(* with any of its outcomes (nat).  A returned PathMetadata (md) or        *)
(* PathReadDir (rd) is then used through its own methods; entries are the  *)
(* items the listing has yielded.                                          *)
(***************************************************************************)
Metadatas == {[ftype |-> t] : t \in FileTypes}
Failures == {Err(e) : e \in NativeErrors}

\* Path::metadata follows a symlink, Path::symlink_metadata does not
MetadataOutcomes == {Ok(m) : m \in {x \in Metadatas : x.ftype # "Symlink"}} \cup Failures
SymlinkMetadataOutcomes == {Ok(m) : m \in Metadatas} \cup Failures
PathOutcomes == {Ok(<<"/">>), Ok(<<"/", "a">>)} \cup Failures
UnitOutcomes == {Ok("unit")} \cup Failures
CopyOutcomes == {Ok(<<"0 bytes">>), Ok(<<"1 byte">>)} \cup Failures
ReadOutcomes == {Ok(<<>>), Ok(<<"a">>)} \cup Failures
FileTypeOutcomes == {Ok(t) : t \in FileTypes} \cup Failures
TimeOutcomes ==
    {Ok("SystemTime"),
     Err(IoError("Unsupported",
                 <<"creation time is not available on this platform currently">>))}

\* what a native listing yields: entries (by file name) and failures
NativeItems == {Ok([name |-> <<"a">>]), Ok([name |-> <<"xFF">>])} \cup Failures
Listings == UNION {[1..k -> NativeItems] : k \in 0..MaxEntries}
ReadDirOutcomes == {Ok(l) : l \in Listings} \cup Failures

PermModes == {"0o644", "0o000"}
Contents == {<<>>, <<"a">>}
Expecteds ==
    {[is |-> "FileTypeEnum", v |-> t] : t \in {"Dir", "File", "Symlink"}}
    \cup {[is |-> "FileType", v |-> t] : t \in FileTypes}

\* the outcomes of a native primitive on p: the empty path names nothing,
\* every primitive fails on it
Native(p, outcomes) == IF Len(p) = 0 THEN outcomes \cap Failures ELSE outcomes

InitFs ==
    /\ path \in FsPaths
    /\ Idle

FsCall(name, a, n, r) ==
    /\ op = "none"
    /\ op' = name
    /\ arg' = a
    /\ nat' = n
    /\ res' = r
    /\ UNCHANGED <<path, entries, attached>>

PeMetadata ==
    \E n \in Native(path, MetadataOutcomes) :
        LET r == pe_metadata(path, n) IN
        /\ FsCall("pe_metadata", <<>>, n, r)
        /\ md' = IF IsOk(r) THEN r.val ELSE NoMd
        /\ rd' = NoRd

PeSymlinkMetadata ==
    \E n \in Native(path, SymlinkMetadataOutcomes) :
        LET r == pe_symlink_metadata(path, n) IN
        /\ FsCall("pe_symlink_metadata", <<>>, n, r)
        /\ md' = IF IsOk(r) THEN r.val ELSE NoMd
        /\ rd' = NoRd

PeCanonicalize ==
    \E n \in Native(path, PathOutcomes) :
        /\ FsCall("pe_canonicalize", <<>>, n, pe_canonicalize(path, n))
        /\ UNCHANGED <<md, rd>>

PeReadLink ==
    \E n \in Native(path, PathOutcomes) :
        /\ FsCall("pe_read_link", <<>>, n, pe_read_link(path, n))
        /\ UNCHANGED <<md, rd>>

PeReadDir ==
    \E n \in Native(path, ReadDirOutcomes) :
        LET r == pe_read_dir(path, n) IN
        /\ FsCall("pe_read_dir", <<>>, n, r)
        /\ rd' = IF IsOk(r) THEN r.val ELSE NoRd
        /\ md' = NoMd

PeReadDirEntries ==
    \E n \in Native(path, ReadDirOutcomes) :
        LET c == pe_read_dir_entries(path, n) IN
        /\ FsCall("pe_read_dir_entries", <<>>, n, c.result)
        /\ rd' = c.handle
        /\ md' = NoMd

PeCopy ==
    \E to \in ArgPaths, n \in Native(path, CopyOutcomes) :
        /\ FsCall("pe_copy", to, n, pe_copy(path, to, n))
        /\ UNCHANGED <<md, rd>>

PeCreateDir ==
    \E n \in Native(path, UnitOutcomes) :
        /\ FsCall("pe_create_dir", <<>>, n, pe_create_dir(path, n))
        /\ UNCHANGED <<md, rd>>

PeCreateDirAll ==
    \E n \in Native(path, UnitOutcomes) :
        /\ FsCall("pe_create_dir_all", <<>>, n, pe_create_dir_all(path, n))
        /\ UNCHANGED <<md, rd>>

PeHardLink ==
    \E link \in ArgPaths, n \in Native(path, UnitOutcomes) :
        /\ FsCall("pe_hard_link", link, n, pe_hard_link(path, link, n))
        /\ UNCHANGED <<md, rd>>

PeRead ==
    \E n \in Native(path, ReadOutcomes) :
        /\ FsCall("pe_read", <<>>, n, pe_read(path, n))
        /\ UNCHANGED <<md, rd>>

PeReadToString ==
    \E n \in Native(path, ReadOutcomes) :
        /\ FsCall("pe_read_to_string", <<>>, n, pe_read_to_string(path, n))
        /\ UNCHANGED <<md, rd>>

PeRemoveDir ==
    \E n \in Native(path, UnitOutcomes) :
        /\ FsCall("pe_remove_dir", <<>>, n, pe_remove_dir(path, n))
        /\ UNCHANGED <<md, rd>>

PeRemoveDirAll ==
    \E n \in Native(path, UnitOutcomes) :
        /\ FsCall("pe_remove_dir_all", <<>>, n, pe_remove_dir_all(path, n))
        /\ UNCHANGED <<md, rd>>

PeRemoveFile ==
    \E n \in Native(path, UnitOutcomes) :
        /\ FsCall("pe_remove_file", <<>>, n, pe_remove_file(path, n))
        /\ UNCHANGED <<md, rd>>

PeRename ==
    \E to \in ArgPaths, n \in Native(path, UnitOutcomes) :
        /\ FsCall("pe_rename", to, n, pe_rename(path, to, n))
        /\ UNCHANGED <<md, rd>>

PeSetPermissions ==
    \E perms \in PermModes, n \in Native(path, UnitOutcomes) :
        /\ FsCall("pe_set_permissions", PermDebug(perms), n,
                  pe_set_permissions(path, perms, n))
        /\ UNCHANGED <<md, rd>>

PeWrite ==
    \E contents \in Contents, n \in Native(path, UnitOutcomes) :
        /\ FsCall("pe_write", <<>>, n, pe_write(path, contents, n))
        /\ UNCHANGED <<md, rd>>

\* a method of a handle the caller holds returns r; a names the entry
HandleCall(name, a, n, r) ==
    /\ res.kind # "Panic"
    /\ op' = name
    /\ arg' = a
    /\ nat' = n
    /\ res' = r
    /\ UNCHANGED <<path, md, attached>>

ReadDirNext ==
    /\ rd.open
    /\ LET x == PathReadDir_next(rd) IN
       /\ HandleCall("PathReadDir::next", <<>>,
                     IF rd.pos < Len(rd.items) THEN rd.items[rd.pos + 1] ELSE End,
                     x.item)
       /\ rd' = x.handle
       /\ entries' = IF x.item = End THEN entries ELSE Append(entries, x.item)

DirEntryMetadata ==
    \E i \in 1..Len(entries), n \in SymlinkMetadataOutcomes :
        /\ IsOk(entries[i])
        /\ HandleCall("PathDirEntry::metadata", entries[i].val.de.name, n,
                      PathDirEntry_metadata(entries[i].val, n))
        /\ UNCHANGED <<rd, entries>>

DirEntryFileType ==
    \E i \in 1..Len(entries), n \in FileTypeOutcomes :
        /\ IsOk(entries[i])
        /\ HandleCall("PathDirEntry::file_type", entries[i].val.de.name, n,
                      PathDirEntry_file_type(entries[i].val, n))
        /\ UNCHANGED <<rd, entries>>

MetadataModified ==
    \E n \in TimeOutcomes :
        /\ md.present
        /\ HandleCall("PathMetadata::modified", <<>>, n, PathMetadata_modified(md, n))
        /\ UNCHANGED <<rd, entries>>

MetadataAccessed ==
    \E n \in TimeOutcomes :
        /\ md.present
        /\ HandleCall("PathMetadata::accessed", <<>>, n, PathMetadata_accessed(md, n))
        /\ UNCHANGED <<rd, entries>>

MetadataCreated ==
    \E n \in TimeOutcomes :
        /\ md.present
        /\ HandleCall("PathMetadata::created", <<>>, n, PathMetadata_created(md, n))
        /\ UNCHANGED <<rd, entries>>

MetadataRequireFileType ==
    \E expected \in Expecteds :
        /\ md.present
        /\ HandleCall("PathMetadata::require_file_type", <<expected.v>>, NoResult,
                      PathMetadata_require_file_type(md, expected))
        /\ UNCHANGED <<rd, entries>>

NextFs ==
    \/ PeMetadata
    \/ PeSymlinkMetadata
    \/ PeCanonicalize
    \/ PeReadLink
    \/ PeReadDir
    \/ PeReadDirEntries
    \/ PeCopy
    \/ PeCreateDir
    \/ PeCreateDirAll
    \/ PeHardLink
    \/ PeRead
    \/ PeReadToString
    \/ PeRemoveDir
    \/ PeRemoveDirAll
    \/ PeRemoveFile
    \/ PeRename
    \/ PeSetPermissions
    \/ PeWrite
    \/ ReadDirNext
    \/ DirEntryMetadata
    \/ DirEntryFileType
    \/ MetadataModified
    \/ MetadataAccessed
    \/ MetadataCreated
    \/ MetadataRequireFileType
    \/ Discard

SpecFs == InitFs /\ [][NextFs]_vars

SinglePathOps ==
    {"pe_metadata", "pe_symlink_metadata", "pe_canonicalize", "pe_read_link",
     "pe_read_dir", "pe_read_dir_entries", "pe_create_dir", "pe_create_dir_all",
     "pe_read", "pe_read_to_string", "pe_remove_dir", "pe_remove_dir_all",
     "pe_remove_file", "pe_write"}
TwoPathOps == {"pe_copy", "pe_rename", "pe_hard_link"}
FsOps == SinglePathOps \cup TwoPathOps \cup {"pe_set_permissions"}

\* the annotation lines of a filesystem operation of PathExt
OpLines(o) ==
    IF o \in {"pe_copy", "pe_rename"}
      THEN <<WithLine("from", display(path)), WithLine("to", display(arg))>>
    ELSE IF o = "pe_hard_link"
      THEN <<WithLine("original", display(path)), WithLine("link", display(arg))>>
    ELSE IF o = "pe_set_permissions"
      THEN <<WithLine("path", display(path)), WithLine("permissions", arg)>>
    ELSE <<WithLine("path", display(path))>>

\* the native value inside a successful result
NativeValue(o, r) ==
    IF o \in {"pe_metadata", "pe_symlink_metadata"} THEN r.val.md
    ELSE IF o = "pe_read_dir" THEN r.val.items
    ELSE r.val

\* C4: when the native primitive of a filesystem operation fails with a
\* system error of message m, the failure renders as m on the first line
\* followed by the operation's annotation lines (path; from then to;
\* original then link; path and permissions); when it succeeds the native
\* value is returned and nothing is annotated.
C4_NativeFailure ==
    op \in FsOps =>
        IF IsErr(nat)
          THEN /\ IsErr(res)
               /\ res.err.ekind = nat.err.ekind
               /\ Lines(res.err.msg) = <<nat.err.msg>> \o OpLines(op)
          ELSE op # "pe_read_dir_entries" =>
                   /\ IsOk(res)
                   /\ NativeValue(op, res) = nat.val

\* a copy from "a" to "/a" that the native copy refused
C4_Witness ==
    /\ op = "pe_copy"
    /\ path = <<"a">>
    /\ arg = <<"/", "a">>
    /\ IsErr(nat)
    /\ Lines(res.err.msg) =
           <<nat.err.msg, WithLine("from", <<"a">>), WithLine("to", <<"/", "a">>)>>

AllLabels ==
    {"path", "prefix", "from", "to", "original", "link", "permissions", "parent-dir"}

\* the paths the last operation concerned: the receiver and a second path,
\* the path of the metadata, the listed directory and the entry inside it
ConcernedPaths ==
    IF op \in {"PathMetadata::modified", "PathMetadata::accessed",
               "PathMetadata::created", "PathMetadata::require_file_type"}
      THEN {md.path}
    ELSE IF op \in {"PathDirEntry::metadata", "PathDirEntry::file_type"}
      THEN {path, join(path, arg)}
    ELSE IF op \in TwoPathOps THEN {path, arg}
    ELSE {path}

\* C5: every error a fallible operation returns renders with at least one
\* annotation line whose value is the path the operation concerned.
C5_NamesPath ==
    IsErr(res) =>
        \E i \in 2..Len(Lines(res.err.msg)), l \in AllLabels, q \in ConcernedPaths :
            Lines(res.err.msg)[i] = WithLine(l, display(q))

\* C6: no operation aborts the process: each returns a success value or an
\* ordinary error value, require_file_type on metadata of any file type
\* included.
C6_NeverPanics == res.kind # "Panic"

AllOk(l) == \A i \in 1..Len(l) : IsOk(l[i])
FirstFailure(l) == CHOOSE k \in 1..Len(l) : IsErr(l[k]) /\ \A i \in 1..(k - 1) : IsOk(l[i])

\* C10: pe_read_dir_entries on a directory returns one entry per item of the
\* native listing, in its order, when every item succeeds, and otherwise the
\* first failing item's error annotated with the directory's path, having
\* read nothing after it; the lazy PathReadDir yields exactly one item per
\* native item and ends exactly when the native listing ends.
C10_ReadDirEntries ==
    /\ (op = "pe_read_dir_entries" /\ IsOk(nat)) =>
           LET l == nat.val IN
           IF AllOk(l)
             THEN /\ res = Ok([i \in 1..Len(l) |-> PathDirEntry_new(path, l[i].val)])
                  /\ rd.pos = Len(l)
             ELSE LET k == FirstFailure(l) IN
                  /\ IsErr(res)
                  /\ Lines(res.err.msg) =
                         <<l[k].err.msg, WithLine("path", display(path))>>
                  /\ rd.pos = k
    /\ rd.open =>
           /\ Len(entries) = rd.pos
           /\ rd.pos <= Len(rd.items)
           /\ \A i \in 1..rd.pos :
                  IF IsOk(rd.items[i])
                    THEN entries[i] = Ok(PathDirEntry_new(path, rd.items[i].val))
                    ELSE IsErr(entries[i])
    /\ op = "PathReadDir::next" =>
           /\ res.kind = "End" <=> nat.kind = "End"
           /\ res.kind = "End" => rd.pos = Len(rd.items)
           /\ res.kind # "End" => res = entries[rd.pos]

\* the first item of a listing of two failed and the second was not read
C10_Witness ==
    /\ op = "pe_read_dir_entries"
    /\ IsOk(nat)
    /\ Len(nat.val) = 2
    /\ IsErr(nat.val[1])
    /\ IsOk(nat.val[2])
    /\ IsErr(res)
    /\ rd.pos = 1

\* some "-with" line of the text carries the displayed path q
NamesPath(text, q) ==
    \E i \in 2..Len(Lines(text)), l \in AllLabels :
        Lines(text)[i] = WithLine(l, display(q))

\* C11: a failure produced through a listing of directory d carries d's
\* path and not the entry's own: an item that fails during the iteration is
\* annotated "-with path: <d>", a failure of PathDirEntry::metadata
\* "-with parent-dir: <d>"; on success PathDirEntry::metadata returns the
\* metadata with the entry's own path inside d, and every yielded entry
\* reports d as its dir_path.
C11_DirectoryAnnotated ==
    /\ (op = "PathReadDir::next" /\ IsErr(res)) =>
           /\ IsErr(nat)
           /\ Lines(res.err.msg) = <<nat.err.msg, WithLine("path", display(path))>>
    /\ op = "PathDirEntry::metadata" =>
           IF IsErr(nat)
             THEN /\ IsErr(res)
                  /\ Lines(res.err.msg) =
                         <<nat.err.msg, WithLine("parent-dir", display(path))>>
                  /\ NamesPath(res.err.msg, path)
                  /\ ~NamesPath(res.err.msg, join(path, arg))
             ELSE res = Ok(PathMetadata_new(join(path, arg), nat.val))
    /\ \A i \in 1..Len(entries) :
           IsOk(entries[i]) => PathDirEntry_dir_path(entries[i].val) = path
    /\ (op = "pe_read_dir_entries" /\ IsOk(res)) =>
           \A i \in 1..Len(res.val) : PathDirEntry_dir_path(res.val[i]) = path

\* the metadata of the entry "a" of the directory "a" could not be read
C11_Witness ==
    /\ op = "PathDirEntry::metadata"
    /\ path = <<"a">>
    /\ arg = <<"a">>
    /\ IsErr(res)
    /\ NamesPath(res.err.msg, <<"a">>)

\* the variants of FileTypeEnum
Discriminants == {"Dir", "File", "Symlink"}

\* C12: require_file_type(expected) returns success exactly when the
\* discriminant of the metadata's file type (directory, regular file or
\* symlink) equals the expected one, and otherwise a failure described as
\* "found <found>, expected <expected>".
C12_RequireFileType ==
    (op = "PathMetadata::require_file_type"
        /\ md.md.ftype \in Discriminants
        /\ arg[1] \in Discriminants)
    => /\ IsOk(res) <=> md.md.ftype = arg[1]
       /\ md.md.ftype # arg[1] =>
              /\ IsErr(res)
              /\ Lines(res.err.msg)[1] =
                     <<"found ", md.md.ftype, ", expected ", arg[1]>>

\* a directory was found where a regular file was expected
C12_Witness ==
    /\ op = "PathMetadata::require_file_type"
    /\ md.md.ftype = "Dir"
    /\ arg = <<"File">>
    /\ IsErr(res)
    /\ res.err.msg = <<"found ", "Dir", ", expected ", "File">>

(***************************************************************************)
(* BadPath and Reason (src/src/error.rs): the annotated failure and its    *)
(* conversion to std::io::Error.                                           *)
(***************************************************************************)
Reasons == {"InvalidUtf8", "NoParent", "NoFilename", "NoFilenameOrNoExtension"}

\* BadPath(ErrorAnnotation<Reason, &Path>)
BadPath(reason, p) == [source |-> reason, info |-> p]

\* impl From<Reason> for Error
Error_from_Reason(reason) ==
    IoError("Other",
            <<CASE reason = "InvalidUtf8" -> "invalid utf8"
                [] reason = "NoParent" -> "no parent path"
                [] reason = "NoFilename" -> "no filename"
                [] reason = "NoFilenameOrNoExtension" -> "no filename or else no extension">>)

\* impl From<BadPath> for Error: the source is converted, the path becomes
\* the annotation ("path", display), and the two are merged.
Error_from_BadPath(bp) ==
    merge_annotation(Error_from_Reason(bp.source), "path", display(bp.info))

(***************************************************************************)
(* The conversion specification: a caller holds a path and converts a      *)
(* BadPath about it, of any reason, to a std::io::Error.                   *)
(***************************************************************************)
InitErr ==
    /\ path \in Paths
    /\ Idle

ErrorFromBadPath ==
    \E reason \in Reasons :
        Returns("Error::from(BadPath)", <<reason>>,
                Err(Error_from_BadPath(BadPath(reason, path))))

NextErr ==
    \/ ErrorFromBadPath
    \/ Discard

SpecErr == InitErr /\ [][NextErr]_vars

\* the fixed short descriptions of the policy table, the ones the PathExt
\* accessors use
PolicyDescription(reason) ==
    CASE reason = "InvalidUtf8" -> "invalid utf8"
      [] reason = "NoParent" -> "no parent path"
      [] reason = "NoFilename" -> "no file name"
      [] reason = "NoFilenameOrNoExtension" -> "no file name or no extension"

\* C13: converting BadPath(reason, path) to the system-error type yields the
\* reason's fixed short description of the policy table, verbatim, followed
\* by the line "-with path: <path>", the text the corresponding PathExt
\* accessor renders.
C13_ConversionText ==
    op = "Error::from(BadPath)" =>
        Lines(res.err.msg) =
            <<(<<PolicyDescription(arg[1])>>), WithLine("path", display(path))>>

(***************************************************************************)
(* The explicit impl PathExt for Path (src/src/pathimpl.rs) over the       *)
(* private helper trait PathExtPriv (src/src/privtrait.rs).                *)
(***************************************************************************)
\* impl PathExtPriv for Path
pep_display(p) == display(p)

\* PathExtPriv::o2r annotating with the raw path instead of its display
PathExtPriv_o2r_RawPath(p, opt, errordesc) ==
    annotate_err_into(ok_or_else(opt, IoError("Other", <<errordesc>>)), "path", p)

\* PathExtPriv::o2r
PathExtPriv_o2r(p, opt, errordesc) ==
    annotate_err_into(ok_or_else(opt, IoError("Other", <<errordesc>>)),
                      "path", pep_display(p))

Path_pe_to_str(p) == PathExtPriv_o2r(p, to_str(p), "invalid utf8")

Path_pe_parent(p) == PathExtPriv_o2r(p, parent(p), "no parent path")

Path_pe_file_name(p) == PathExtPriv_o2r(p, file_name(p), "no file name")

Path_pe_strip_prefix(p, base) ==
    LET bref == base IN
    annotate_err_into(
        annotate_err_into(
            map_err(strip_prefix(p, bref), other_error_fmt(<<"prefix mismatch">>)),
            "prefix", display(bref)),
        "path", display(p))

Path_pe_file_stem(p) == PathExtPriv_o2r(p, file_stem(p), "no file name")

Path_pe_extension(p) ==
    PathExtPriv_o2r(p, extension(p), "no file name or no extension")

Path_pe_metadata(p, n) ==
    LET r == annotate_err_into(n, "path", display(p)) IN
    IF IsOk(r) THEN Ok(PathMetadata_new(p, r.val)) ELSE r

Path_pe_symlink_metadata(p, n) ==
    LET r == annotate_err_into(n, "path", display(p)) IN
    IF IsOk(r) THEN Ok(PathMetadata_new(p, r.val)) ELSE r

Path_pe_canonicalize(p, n) == annotate_err_into(n, "path", display(p))

Path_pe_read_link(p, n) == annotate_err_into(n, "path", display(p))

Path_pe_read_dir(p, n) ==
    annotate_err_into(IF IsOk(n) THEN Ok(PathReadDir_new(p, n.val)) ELSE n,
                      "path", display(p))

(***************************************************************************)
(* The impl specification: a caller holds a path and calls one method of   *)
(* the explicit impl on it; nat records what the native primitive did.     *)
(***************************************************************************)
InitImpl ==
    /\ path \in Paths
    /\ Idle

ImplCall(name, a, n, r) ==
    /\ FsCall(name, a, n, r)
    /\ UNCHANGED <<md, rd>>

PathPeToStr == Returns("Path::pe_to_str", <<>>, Path_pe_to_str(path))
PathPeParent == Returns("Path::pe_parent", <<>>, Path_pe_parent(path))
PathPeFileName == Returns("Path::pe_file_name", <<>>, Path_pe_file_name(path))
PathPeFileStem == Returns("Path::pe_file_stem", <<>>, Path_pe_file_stem(path))
PathPeExtension == Returns("Path::pe_extension", <<>>, Path_pe_extension(path))

PathPeStripPrefix ==
    \E base \in ArgPaths :
        Returns("Path::pe_strip_prefix", base, Path_pe_strip_prefix(path, base))

PathPeMetadata ==
    \E n \in Native(path, MetadataOutcomes) :
        ImplCall("Path::pe_metadata", <<>>, n, Path_pe_metadata(path, n))

PathPeSymlinkMetadata ==
    \E n \in Native(path, SymlinkMetadataOutcomes) :
        ImplCall("Path::pe_symlink_metadata", <<>>, n, Path_pe_symlink_metadata(path, n))

PathPeCanonicalize ==
    \E n \in Native(path, PathOutcomes) :
        ImplCall("Path::pe_canonicalize", <<>>, n, Path_pe_canonicalize(path, n))

PathPeReadLink ==
    \E n \in Native(path, PathOutcomes) :
        ImplCall("Path::pe_read_link", <<>>, n, Path_pe_read_link(path, n))

PathPeReadDir ==
    \E n \in Native(path, ReadDirOutcomes) :
        ImplCall("Path::pe_read_dir", <<>>, n, Path_pe_read_dir(path, n))

NextImpl ==
    \/ PathPeToStr
    \/ PathPeParent
    \/ PathPeFileName
    \/ PathPeStripPrefix
    \/ PathPeFileStem
    \/ PathPeExtension
    \/ PathPeMetadata
    \/ PathPeSymlinkMetadata
    \/ PathPeCanonicalize
    \/ PathPeReadLink
    \/ PathPeReadDir
    \/ Discard

SpecImpl == InitImpl /\ [][NextImpl]_vars

\* the same success value, or a failure of the same description and the same
\* annotation lines in the same order
SameOutcome(a, b) ==
    IF IsOk(a) THEN a = b
    ELSE /\ IsErr(a)
         /\ IsErr(b)
         /\ Lines(a.err.msg) = Lines(b.err.msg)

\* C14: each method of the explicit impl PathExt for Path gives what the
\* trait's default method gives for the same path, argument and native
\* outcome: the same success value, or an error of the same description and
\* the same annotation lines in the same order.
C14_ImplEquivalence ==
    /\ op = "Path::pe_to_str" => SameOutcome(res, pe_to_str(path))
    /\ op = "Path::pe_parent" => SameOutcome(res, pe_parent(path))
    /\ op = "Path::pe_file_name" => SameOutcome(res, pe_file_name(path))
    /\ op = "Path::pe_strip_prefix" => SameOutcome(res, pe_strip_prefix(path, arg))
    /\ op = "Path::pe_file_stem" => SameOutcome(res, pe_file_stem(path))
    /\ op = "Path::pe_extension" => SameOutcome(res, pe_extension(path))
    /\ op = "Path::pe_metadata" => SameOutcome(res, pe_metadata(path, nat))
    /\ op = "Path::pe_symlink_metadata" => SameOutcome(res, pe_symlink_metadata(path, nat))
    /\ op = "Path::pe_canonicalize" => SameOutcome(res, pe_canonicalize(path, nat))
    /\ op = "Path::pe_read_link" => SameOutcome(res, pe_read_link(path, nat))
    /\ op = "Path::pe_read_dir" => SameOutcome(res, pe_read_dir(path, nat))

C14_Witness ==
    /\ op = "Path::pe_file_name"
    /\ path = <<"a", "/", ".", ".">>
    /\ IsErr(res)
    /\ Lines(res.err.msg) = Lines(pe_file_name(path).err.msg)
    /\ Len(Lines(res.err.msg)) = 2

====
